---- MODULE Spec2Model ----
(***************************************************************************)
(* Model of the watermark endpoint of the Wallpapers API (src/main.py):    *)
(* watermark_image -> _load_image_from_url -> _apply_watermark -> JPEG     *)
(* encoding.  One request is processed at a time; every local of the       *)
(* handler is a variable, and pc is the handler's position.                *)
(***************************************************************************)
EXTENDS Integers, Sequences, FiniteSets, TLC

VARIABLES
    pc,         \* position of the request handler
    url,        \* query parameter url
    text,       \* query parameter text (Optional[str])
    parsed,     \* urllib.parse.urlparse(url).scheme
    resp,       \* result of requests.get
    exc,        \* exception in flight
    heap,       \* PIL image objects, by object id
    img,        \* id of the image returned by the loader (0: unbound)
    out,        \* id of the image returned by _apply_watermark (0: unbound)
    wm_text,    \* text handed to _apply_watermark
    geom,       \* the numbers _apply_watermark computed
    buf,        \* io.BytesIO handed to the response
    response,   \* what the caller receives
    fetches,    \* calls of requests.get in this request
    decodes,    \* calls of Image.open in this request
    stages,     \* pipeline stages entered in this request, in order
    failed      \* the stage that raised, "none" if none did

vars == <<pc, url, text, parsed, resp, exc, heap, img, out, wm_text, geom,
          buf, response, fetches, decodes, stages, failed>>

----------------------------------------------------------------------------
(* Bounds of the model *)

MaxSmallDim == 13       \* image widths and heights 1..MaxSmallDim are all tried
MaxSmallText == 1       \* measured text extents 0..MaxSmallText are all tried

NotableWidths == {40, 959, 960, 999, 1000, 1039, 1040, 3840, 4000, 4001}
NotableHeights == {2160}
Widths == (1..MaxSmallDim) \cup NotableWidths
Heights == (1..MaxSmallDim) \cup NotableHeights
TextWs == (0..MaxSmallText) \cup {180, 4100}
TextHs == (0..MaxSmallText) \cup {20}

\* text query parameter: absent (None), empty, or a caller's string
None == [present |-> FALSE, value |-> ""]
Str(s) == [present |-> TRUE, value |-> s]
Texts == {None, Str(""), Str("hello")}

\* URLs: the scheme as written, and whether urlparse accepts the netloc
Urls == {[scheme |-> s, well_formed |-> TRUE] :
            s \in {"http", "https", "HTTP", "ftp", "file", ""}}
        \cup {[scheme |-> "http", well_formed |-> FALSE]}

SourceModes == {"RGB", "RGBA", "L"}

----------------------------------------------------------------------------
(* Program constants *)

DEFAULT_TEXT == "made by afthab"
MinFontSize == 24
FontDivisor == 40
MinPadding == 12
PaddingDivisor == 3
BgDivX == 2
BgDivY == 3
MinShadow == 1
ShadowDivisor == 20
OK_STATUS == 200
BAD_REQUEST == 400

Max(a, b) == IF a >= b THEN a ELSE b

----------------------------------------------------------------------------
(* Exceptions *)

\* an exception: its class, its status_code (HTTPException), and the class of
\* the exception being handled when it was raised (__context__)
NoExc == [type |-> "none", status |-> 0, context |-> "none"]
Raise(t) == [type |-> t, status |-> 0, context |-> "none"]
HTTPException(s) == [type |-> "HTTPException", status |-> s, context |-> "none"]

NoResp == [kind |-> "none", status |-> 0]
NoResponse == [kind |-> "none", status |-> 0, body |-> "none"]
NoGeom == [set |-> FALSE]

----------------------------------------------------------------------------
(* PIL images *)

ImageIds == 1..5
NoImage == [mode |-> "none", width |-> 0, height |-> 0, px |-> <<>>]
EmptyHeap == [i \in ImageIds |-> NoImage]

\* a convert that hands back the image as it is
ImageConvertNoop(im, mode) == im

\* Image.convert: a new image of the given mode, same size and content
ImageConvert(im, mode) == [im EXCEPT !.mode = mode]

\* Image.copy
ImageCopy(im) == im

\* Image.new(mode, size, transparent)
ImageNew(mode, w, h) == [mode |-> mode, width |-> w, height |-> h, px |-> <<>>]

\* ImageDraw: painting changes the drawn image in place
Paint(h, id, op) == [h EXCEPT ![id].px = Append(@, op)]

\* Image.alpha_composite(im1, im2): both RGBA and of one size, else ValueError
CompositeOk(im1, im2) ==
    /\ im1.mode = "RGBA" /\ im2.mode = "RGBA"
    /\ im1.width = im2.width /\ im1.height = im2.height
AlphaComposite(im1, im2) == [im1 EXCEPT !.px = im1.px \o im2.px]

----------------------------------------------------------------------------
(* _load_image_from_url *)

\* urlparse lower-cases the scheme it splits off
Lower(s) == IF s = "HTTP" THEN "http" ELSE s

\* urllib.parse.urlparse(url): raises ValueError on a malformed netloc
UrlParseRaises(u) == ~u.well_formed
UrlParseScheme(u) == Lower(u.scheme)

\* a scheme test that lets ftp through
AllowedSchemesWithFtp == {"http", "https", "ftp"}

\* if parsed.scheme not in ("http", "https")
AllowedSchemes == {"http", "https"}

\* a loader that tries a failed fetch or decode again
RetryTarget(stage) == IF stage \in {"fetch", "decode"} THEN stage ELSE "except"

\* an exception raised inside the try block is taken to the except clauses
RaiseTarget(stage) == "except"

\* a loader without the catch-all clause: the exception leaves as it is
HandleReraise(e) == e

\* except HTTPException: raise / except Exception: raise HTTPException(400)
Handle(e) ==
    IF e.type = "HTTPException"
    THEN e
    ELSE [HTTPException(BAD_REQUEST) EXCEPT !.context = e.type]

\* outcomes of requests.get(url, timeout=10)
FetchErrors == {"ConnectionError", "Timeout"}
Statuses == {OK_STATUS, 404, 500}

----------------------------------------------------------------------------
(* _apply_watermark *)

\* a font size rounded to the nearest instead of floored
FontSizeRounded(width) == Max(MinFontSize, (width + 20) \div FontDivisor)

\* font_size = max(24, width // 40)
FontSize(width) == Max(MinFontSize, width \div FontDivisor)
TextPadding(font_size) == Max(MinPadding, font_size \div PaddingDivisor)
AnchorX(width, text_w, text_padding) == width - text_w - text_padding
AnchorY(height, text_h, text_padding) == height - text_h - text_padding
\* a plate padded by the whole text padding
BgPaddingXFull(text_padding) == text_padding

BgPaddingX(text_padding) == text_padding \div BgDivX
BgPaddingY(text_padding) == text_padding \div BgDivY
ShadowOffset(font_size) == Max(MinShadow, font_size \div ShadowDivisor)

\* rect_coords = (x0, y0, x1, y1)
RectCoords(x, y, text_w, text_h, bg_padding_x, bg_padding_y) ==
    <<x - bg_padding_x, y - bg_padding_y,
      x + text_w + bg_padding_x, y + text_h + bg_padding_y>>

Geometry(width, height, txt, text_w, text_h) ==
    LET font_size == FontSize(width)
        text_padding == TextPadding(font_size)
        x == AnchorX(width, text_w, text_padding)
        y == AnchorY(height, text_h, text_padding)
        bg_padding_x == BgPaddingX(text_padding)
        bg_padding_y == BgPaddingY(text_padding)
        shadow_offset == ShadowOffset(font_size)
    IN  [set |-> TRUE, text |-> txt, width |-> width, height |-> height,
         font_size |-> font_size, text_padding |-> text_padding,
         text_w |-> text_w, text_h |-> text_h, x |-> x, y |-> y,
         bg_padding_x |-> bg_padding_x, bg_padding_y |-> bg_padding_y,
         rect_coords |-> RectCoords(x, y, text_w, text_h,
                                    bg_padding_x, bg_padding_y),
         shadow_offset |-> shadow_offset,
         shadow_at |-> <<x + shadow_offset, y + shadow_offset>>,
         text_at |-> <<x, y>>]

\* object ids of the images _apply_watermark allocates
ImgId == 1
BaseId == 2
LayerId == 3
WatermarkedId == 4
OutId == 5

\* drawing straight onto the image passed in
DrawOnInput(imgId, layerId) == imgId

\* draw = ImageDraw.Draw(watermark_layer): the image the drawing calls change
DrawTarget(imgId, layerId) == layerId

ApplyWatermark(h, imgId, txt, text_w, text_h) ==
    LET im == h[imgId]
        g == Geometry(im.width, im.height, txt, text_w, text_h)
        h1 == [h EXCEPT ![BaseId] = ImageCopy(im),
                        ![LayerId] = ImageNew("RGBA", im.width, im.height)]
        draw == DrawTarget(imgId, LayerId)
        h2 == Paint(h1, draw, <<"rect">> \o g.rect_coords)
        h3 == Paint(h2, draw, <<"shadow">> \o g.shadow_at)
        h4 == Paint(h3, draw, <<"text">> \o g.text_at)
    IN  IF CompositeOk(h4[BaseId], h4[LayerId])
        THEN LET watermarked == AlphaComposite(h4[BaseId], h4[LayerId])
             IN  [ok |-> TRUE, geom |-> g, out |-> OutId,
                  heap |-> [h4 EXCEPT ![WatermarkedId] = watermarked,
                                      ![OutId] = ImageConvert(watermarked, "RGB")]]
        ELSE [ok |-> FALSE, geom |-> g, out |-> 0, heap |-> h4]

----------------------------------------------------------------------------
(* watermark_image *)

\* Python truthiness of Optional[str]: None and "" are false
Truthy(t) == t.present /\ t.value # ""

\* a default applied to an absent text only
WmTextNoneOnly(t) == IF t.present THEN t.value ELSE DEFAULT_TEXT

\* wm_text = text if text else "made by afthab"
WmText(t) == IF Truthy(t) THEN t.value ELSE DEFAULT_TEXT

\* a handler that swallows the exception and goes on to answer
SwallowTarget(stage) == "respond"

\* an exception raised in watermark_image is caught nowhere: it leaves the handler
UncaughtTarget(stage) == "propagate"

\* the framework's answer to an exception leaving the handler: the status of an
\* HTTPException, 500 Internal Server Error for any other
ErrorStatus(e) == IF e.type = "HTTPException" THEN e.status ELSE 500

----------------------------------------------------------------------------
(* The request handler, step by step *)

Init ==
    /\ pc = "idle"
    /\ url = [scheme |-> "", well_formed |-> TRUE]
    /\ text = None
    /\ parsed = ""
    /\ resp = NoResp
    /\ exc = NoExc
    /\ heap = EmptyHeap
    /\ img = 0
    /\ out = 0
    /\ wm_text = ""
    /\ geom = NoGeom
    /\ buf = "none"
    /\ response = NoResponse
    /\ fetches = 0
    /\ decodes = 0
    /\ stages = <<>>
    /\ failed = "none"

\* GET /api/watermark?url=..&text=..; the handler starts with img = _load_image_from_url(url)
Receive ==
    /\ pc \in {"idle", "done"}
    /\ \E u \in Urls, t \in Texts :
        /\ url' = u
        /\ text' = t
    /\ pc' = "urlparse"
    /\ parsed' = ""
    /\ resp' = NoResp
    /\ exc' = NoExc
    /\ heap' = EmptyHeap
    /\ img' = 0
    /\ out' = 0
    /\ wm_text' = ""
    /\ geom' = NoGeom
    /\ buf' = "none"
    /\ response' = NoResponse
    /\ fetches' = 0
    /\ decodes' = 0
    /\ stages' = <<"load">>
    /\ failed' = "none"

\* parsed = urllib.parse.urlparse(url)
UrlParse ==
    /\ pc = "urlparse"
    /\ IF UrlParseRaises(url)
       THEN /\ exc' = Raise("ValueError")
            /\ pc' = RaiseTarget("urlparse")
            /\ UNCHANGED parsed
       ELSE /\ parsed' = UrlParseScheme(url)
            /\ pc' = "check_scheme"
            /\ UNCHANGED exc
    /\ UNCHANGED <<url, text, resp, heap, img, out, wm_text, geom, buf,
                   response, fetches, decodes, stages, failed>>

\* if parsed.scheme not in ("http", "https"): raise ValueError
CheckScheme ==
    /\ pc = "check_scheme"
    /\ IF parsed \notin AllowedSchemes
       THEN /\ exc' = Raise("ValueError")
            /\ pc' = RaiseTarget("check_scheme")
       ELSE /\ pc' = "fetch"
            /\ UNCHANGED exc
    /\ UNCHANGED <<url, text, parsed, resp, heap, img, out, wm_text, geom, buf,
                   response, fetches, decodes, stages, failed>>

\* resp = requests.get(url, timeout=10)
Fetch ==
    /\ pc = "fetch"
    /\ fetches' = fetches + 1
    /\ \/ \E e \in FetchErrors :
            /\ exc' = Raise(e)
            /\ pc' = RaiseTarget("fetch")
            /\ UNCHANGED resp
       \/ \E s \in Statuses :
            /\ resp' = [kind |-> "response", status |-> s]
            /\ pc' = "check_status"
            /\ UNCHANGED exc
    /\ UNCHANGED <<url, text, parsed, heap, img, out, wm_text, geom, buf,
                   response, decodes, stages, failed>>

\* if resp.status_code != 200: raise HTTPException(400)
CheckStatus ==
    /\ pc = "check_status"
    /\ IF resp.status # OK_STATUS
       THEN /\ exc' = HTTPException(BAD_REQUEST)
            /\ pc' = RaiseTarget("check_status")
       ELSE /\ pc' = "decode"
            /\ UNCHANGED exc
    /\ UNCHANGED <<url, text, parsed, resp, heap, img, out, wm_text, geom, buf,
                   response, fetches, decodes, stages, failed>>

\* img = Image.open(io.BytesIO(resp.content)).convert("RGBA"); return img
Decode ==
    /\ pc = "decode"
    /\ decodes' = decodes + 1
    /\ \/ /\ exc' = Raise("UnidentifiedImageError")
          /\ pc' = RaiseTarget("decode")
          /\ UNCHANGED <<heap, img>>
       \/ \E m \in SourceModes, w \in Widths, h \in Heights :
            LET opened == [mode |-> m, width |-> w, height |-> h,
                           px |-> << <<"src">> >>]
            IN  /\ heap' = [heap EXCEPT ![ImgId] = ImageConvert(opened, "RGBA")]
                /\ img' = ImgId
                /\ pc' = "loaded"
                /\ UNCHANGED exc
    /\ UNCHANGED <<url, text, parsed, resp, out, wm_text, geom, buf,
                   response, fetches, stages, failed>>

\* the except clauses of _load_image_from_url; the exception leaves the loader
Except ==
    /\ pc = "except"
    /\ exc' = Handle(exc)
    /\ failed' = "load"
    /\ pc' = UncaughtTarget("load")
    /\ UNCHANGED <<url, text, parsed, resp, heap, img, out, wm_text, geom, buf,
                   response, fetches, decodes, stages>>

\* wm_text = text if text else "made by afthab"
SelectText ==
    /\ pc = "loaded"
    /\ wm_text' = WmText(text)
    /\ pc' = "composite"
    /\ UNCHANGED <<url, text, parsed, resp, exc, heap, img, out, geom, buf,
                   response, fetches, decodes, stages, failed>>

\* out = _apply_watermark(img, wm_text); the font decides the measured text box
Composite ==
    /\ pc = "composite"
    /\ stages' = Append(stages, "composite")
    /\ \E text_w \in TextWs, text_h \in TextHs :
        LET r == ApplyWatermark(heap, img, wm_text, text_w, text_h)
        IN  /\ heap' = r.heap
            /\ geom' = r.geom
            /\ out' = r.out
            /\ IF r.ok
               THEN /\ pc' = "encode"
                    /\ UNCHANGED <<exc, failed>>
               ELSE /\ exc' = Raise("ValueError")
                    /\ failed' = "composite"
                    /\ pc' = UncaughtTarget("composite")
    /\ UNCHANGED <<url, text, parsed, resp, img, wm_text, buf,
                   response, fetches, decodes>>

\* buf = io.BytesIO(); out.save(buf, format="JPEG", quality=90, optimize=True); buf.seek(0)
Encode ==
    /\ pc = "encode"
    /\ stages' = Append(stages, "encode")
    /\ \/ /\ buf' = "jpeg"
          /\ pc' = "respond"
          /\ UNCHANGED <<exc, failed>>
       \/ /\ buf' = "partial"
          /\ exc' = Raise("OSError")
          /\ failed' = "encode"
          /\ pc' = UncaughtTarget("encode")
    /\ UNCHANGED <<url, text, parsed, resp, heap, img, out, wm_text, geom,
                   response, fetches, decodes>>

\* return StreamingResponse(buf, media_type="image/jpeg")
Respond ==
    /\ pc = "respond"
    /\ response' = [kind |-> "image/jpeg", status |-> OK_STATUS, body |-> buf]
    /\ pc' = "done"
    /\ UNCHANGED <<url, text, parsed, resp, exc, heap, img, out, wm_text, geom,
                   buf, fetches, decodes, stages, failed>>

\* an exception left watermark_image: the caller gets an error status, no body
Propagate ==
    /\ pc = "propagate"
    /\ response' = [kind |-> "error", status |-> ErrorStatus(exc), body |-> "none"]
    /\ pc' = "done"
    /\ UNCHANGED <<url, text, parsed, resp, exc, heap, img, out, wm_text, geom,
                   buf, fetches, decodes, stages, failed>>

Next ==
    \/ Receive
    \/ UrlParse
    \/ CheckScheme
    \/ Fetch
    \/ CheckStatus
    \/ Decode
    \/ Except
    \/ SelectText
    \/ Composite
    \/ Encode
    \/ Respond
    \/ Propagate

Spec == Init /\ [][Next]_vars

----------------------------------------------------------------------------
(* Properties *)

Range(q) == {q[i] : i \in 1..Len(q)}
IsPrefix(p, q) == Len(p) <= Len(q) /\ \A i \in 1..Len(p) : p[i] = q[i]
Pipeline == <<"load", "composite", "encode">>
Error400 == [kind |-> "error", status |-> 400, body |-> "none"]

\* C1: a request whose URL scheme is neither http nor https never fetches
\* (the scheme check precedes the fetch) and ends with an HTTP 400 error.
C1_BadSchemeRejectedBeforeFetch ==
    (pc # "idle" /\ Lower(url.scheme) \notin {"http", "https"}) =>
        /\ fetches = 0
        /\ resp = NoResp
        /\ pc = "done" => response = Error400

C1_Witness ==
    /\ pc = "done"
    /\ url.scheme = "ftp"
    /\ response = Error400
    /\ fetches = 0

\* the three input-side failures of a request
FetchRaised == exc.type \in FetchErrors \/ exc.context \in FetchErrors
FetchNot200 == resp.kind = "response" /\ resp.status # 200
DecodeFailed ==
    exc.type = "UnidentifiedImageError" \/ exc.context = "UnidentifiedImageError"

\* C2: when the fetch raises (network error, timeout), returns a status other
\* than 200, or the bytes do not decode, the caller gets an HTTP 400 error, no
\* JPEG body, and neither the compositor nor the encoder runs.
C2_InputFailuresAre400 ==
    (FetchRaised \/ FetchNot200 \/ DecodeFailed) =>
        /\ "composite" \notin Range(stages)
        /\ "encode" \notin Range(stages)
        /\ out = 0
        /\ buf = "none"
        /\ response.kind # "image/jpeg"
        /\ pc = "done" => response = Error400

C2_Witness ==
    /\ pc = "done"
    /\ DecodeFailed
    /\ resp.status = 200
    /\ response = Error400
    /\ stages = <<"load">>

InCanvas(px, py) ==
    /\ 0 <= px /\ px < geom.width
    /\ 0 <= py /\ py < geom.height

\* C3: every coordinate composite references (the four corners of the plate,
\* the text origin, the shadow origin) lies within [0, width) x [0, height),
\* for every image size and every measured text size.
C3_AllCoordinatesInCanvas ==
    geom.set =>
        /\ InCanvas(geom.rect_coords[1], geom.rect_coords[2])
        /\ InCanvas(geom.rect_coords[3], geom.rect_coords[2])
        /\ InCanvas(geom.rect_coords[1], geom.rect_coords[4])
        /\ InCanvas(geom.rect_coords[3], geom.rect_coords[4])
        /\ InCanvas(geom.text_at[1], geom.text_at[2])
        /\ InCanvas(geom.shadow_at[1], geom.shadow_at[2])

\* C4: the stages run in the order load, composite, encode, none twice; a
\* body is returned only after all three completed; once a stage fails, no
\* later stage runs and no image bytes are returned.
C4_SequentialNoPartialOutput ==
    /\ IsPrefix(stages, Pipeline)
    /\ response.kind = "image/jpeg" =>
        /\ stages = Pipeline
        /\ failed = "none"
        /\ exc = NoExc
        /\ out # 0
        /\ response.body = "jpeg"
    /\ failed # "none" =>
        /\ stages # <<>>
        /\ stages[Len(stages)] = failed
        /\ response.kind # "image/jpeg"
        /\ response.body = "none"

C4_Witness ==
    /\ pc = "done"
    /\ failed = "encode"
    /\ stages = Pipeline
    /\ response.kind = "error"
    /\ response.body = "none"

\* C5: a request makes at most one fetch and at most one decode; after a
\* failure it goes straight to the error, never back to fetching or decoding.
C5_SingleFetchSingleDecode ==
    /\ fetches <= 1
    /\ decodes <= 1
    /\ exc # NoExc => pc \in {"except", "propagate", "done"}

C5_Witness ==
    /\ pc = "done"
    /\ exc.context = "Timeout"
    /\ fetches = 1
    /\ decodes = 0
    /\ response = Error400

\* C6: the image composite returns has the width and height of its input and
\* mode RGB (no alpha channel), whatever the text and the anchor.
C6_SameSizeNoAlpha ==
    (geom.set /\ failed # "composite") =>
        /\ out # 0
        /\ heap[out].width = heap[img].width
        /\ heap[out].height = heap[img].height
        /\ heap[out].mode = "RGB"
        /\ heap[out].mode # heap[img].mode

C6_Witness ==
    /\ pc = "encode"
    /\ heap[out].mode = "RGB"
    /\ heap[out].width = 3840
    /\ heap[out].height = 2160
    /\ geom.x < 0

\* C7: fontSize = max(24, width div 40) and padding = max(12, fontSize div 3)
\* with floor division: 960 -> 24, 4000 -> 100, fontSize 100 -> padding 33.
C7_FontAndPaddingFormula ==
    geom.set =>
        /\ geom.font_size >= 24
        /\ geom.width < 960 => geom.font_size = 24
        /\ geom.width >= 960 =>
            /\ 40 * geom.font_size <= geom.width
            /\ geom.width < 40 * (geom.font_size + 1)
        /\ geom.text_padding >= 12
        /\ geom.font_size < 36 => geom.text_padding = 12
        /\ geom.font_size >= 36 =>
            /\ 3 * geom.text_padding <= geom.font_size
            /\ geom.font_size < 3 * (geom.text_padding + 1)
        /\ geom.width = 960 => geom.font_size = 24
        /\ geom.width = 4000 => geom.font_size = 100
        /\ geom.font_size = 100 => geom.text_padding = 33

C7_Witness ==
    /\ geom.set
    /\ geom.width = 4000
    /\ geom.font_size = 100
    /\ geom.text_padding = 33

\* C8: composite leaves the image passed to it as it was: size, mode and
\* every pixel of the caller's buffer are the same after the call.
C8_InputBufferUnchanged ==
    [][pc = "composite" => (img' = img /\ heap'[img] = heap[img])]_vars

C8_Witness ==
    /\ pc = "encode"
    /\ heap[img].px = << <<"src">> >>
    /\ heap[img].mode = "RGBA"
    /\ Len(heap[out].px) = 4
    /\ Len(heap[LayerId].px) = 3

\* C9: the compositor gets "made by afthab" when the request has no text or
\* an empty one, the caller's text otherwise, and never an empty text.
C9_DefaultText ==
    geom.set =>
        /\ geom.text # ""
        /\ (~text.present \/ text.value = "") => geom.text = "made by afthab"
        /\ (text.present /\ text.value # "") => geom.text = text.value

C9_Witness ==
    /\ geom.set
    /\ text = Str("")
    /\ geom.text = "made by afthab"

\* the right and bottom extents of what composite draws
PlateRight == geom.rect_coords[3]
PlateBottom == geom.rect_coords[4]
ShadowRight == geom.shadow_at[1] + geom.text_w
ShadowBottom == geom.shadow_at[2] + geom.text_h

UpperExtents ==
    /\ geom.shadow_offset < geom.text_padding
    /\ PlateRight <= geom.width - 6
    /\ PlateBottom <= geom.height - 8
    /\ ShadowRight < geom.width
    /\ ShadowBottom < geom.height

====
